---- MODULE Spec2Model ----
(***************************************************************************)
(* Review/revision loop of podcast-pipeline: the loop engine               *)
(* (review_loop_engine.py) and the orchestrator around it                  *)
(* (review_loop_orchestrator.py) with the workspace store it commits to.   *)
(*                                                                         *)
(* Optional values (Python None) are sequences of length 0 or 1.           *)
(***************************************************************************)
EXTENDS Integers, Sequences, FiniteSets, TLC

\* ---------------------------------------------------------------- bounds
MaxIter == 2            \* largest max_iterations a caller passes
MaxCalls == 2           \* advance calls / orchestrator runs per behaviour
MaxCandId == 2          \* candidate ids the creator chooses from
MaxWork == 2            \* sum of max_iterations over the orchestrator runs of a behaviour

\* ------------------------------------------------------- program values
NoIteration == 0        \* final_iteration = None
ProtocolVersion == 1    \* "version": 1 of the protocol documents

None == <<>>
Some(x) == <<x>>
IsNone(o) == o = <<>>
Val(o) == o[1]

LoopOutcome == {"converged", "needs_human", "in_progress"}
ReviewVerdict == {"ok", "changes_requested", "needs_human"}
DecisionFields == {"outcome", "final_iteration", "reason"}
AssetIds == {"slug", "description"}
CandIds == 1..MaxCandId

\* ------------------------------------------------------ LoopDecision
is_terminal(d) == d.outcome \in {"converged", "needs_human"}

is_locked(d, field) == field \in d.locked_fields

_terminal_decision_unlocked(outcome, iteration, reason) ==
    [outcome |-> outcome, final_iteration |-> iteration, reason |-> reason,
     locked_fields |-> {}]

_terminal_decision(outcome, iteration, reason) ==
    [outcome |-> outcome, final_iteration |-> iteration, reason |-> reason,
     locked_fields |-> {"outcome", "final_iteration", "reason"}]

_decide_outcome_limit_first(review, creator_done, iteration, max_iterations) ==
    IF iteration >= max_iterations
    THEN Some(_terminal_decision("needs_human", iteration, "iteration_limit"))
    ELSE IF review.verdict = "ok" /\ creator_done
    THEN Some(_terminal_decision("converged", iteration, "reviewer_ok_and_creator_done"))
    ELSE None

_decide_outcome_done_only(review, creator_done, iteration, max_iterations) ==
    IF creator_done
    THEN Some(_terminal_decision("converged", iteration, "reviewer_ok_and_creator_done"))
    ELSE IF iteration >= max_iterations
    THEN Some(_terminal_decision("needs_human", iteration, "iteration_limit"))
    ELSE None

\* reaching the iteration limit produces no decision
_decide_outcome_no_limit(review, creator_done, iteration, max_iterations) ==
    IF review.verdict = "ok" /\ creator_done
    THEN Some(_terminal_decision("converged", iteration, "reviewer_ok_and_creator_done"))
    ELSE None

\* a reviewer verdict of needs_human ends the loop at once
_decide_outcome_verdict_stops(review, creator_done, iteration, max_iterations) ==
    IF review.verdict = "ok" /\ creator_done
    THEN Some(_terminal_decision("converged", iteration, "reviewer_ok_and_creator_done"))
    ELSE IF review.verdict = "needs_human" \/ iteration >= max_iterations
    THEN Some(_terminal_decision("needs_human", iteration, "iteration_limit"))
    ELSE None

_decide_outcome(review, creator_done, iteration, max_iterations) ==
    IF review.verdict = "ok" /\ creator_done
    THEN Some(_terminal_decision("converged", iteration, "reviewer_ok_and_creator_done"))
    ELSE IF iteration >= max_iterations
    THEN Some(_terminal_decision("needs_human", iteration, "iteration_limit"))
    ELSE None

\* the proposed decision replaces the existing one, locked or not
_merge_decision_overwrite(existing, proposed) ==
    IF IsNone(proposed) THEN existing ELSE proposed

_merge_decision(existing, proposed) ==
    IF IsNone(proposed) THEN existing
    ELSE IF IsNone(existing) THEN proposed
    ELSE LET e == Val(existing)
             p == Val(proposed)
             locked == e.locked_fields
         IN Some([outcome |-> IF "outcome" \in locked THEN e.outcome ELSE p.outcome,
                  final_iteration |-> IF "final_iteration" \in locked
                                      THEN e.final_iteration ELSE p.final_iteration,
                  reason |-> IF "reason" \in locked THEN e.reason ELSE p.reason,
                  locked_fields |-> locked \cup p.locked_fields])

\* the review is recorded as the reviewer returned it
_normalize_review_iteration_keep(review, iteration) == review

_normalize_review_iteration(review, iteration) ==
    IF review.iteration = iteration THEN review
    ELSE [review EXCEPT !.iteration = iteration]

\* --------------------------------------------------- JSON serialization
\* sorted(decision.locked_fields): the field names in alphabetical order
SortedFields(S) ==
    LET order == <<"final_iteration", "outcome", "reason">>
    IN SelectSeq(order, LAMBDA f : f \in S)

_decision_to_json(d) ==
    [outcome |-> d.outcome, final_iteration |-> d.final_iteration,
     reason |-> d.reason, locked_fields |-> SortedFields(d.locked_fields)]

IterationToJson(it) ==
    [version |-> ProtocolVersion, iteration |-> it.iteration,
     creator |-> [done |-> it.creator_done, candidate |-> it.candidate],
     reviewer |-> it.review]

StateToJson(s) ==
    [version |-> ProtocolVersion, asset_id |-> s.asset_id,
     max_iterations |-> s.max_iterations,
     decision |-> IF IsNone(s.decision) THEN None
                  ELSE Some(_decision_to_json(Val(s.decision))),
     iterations |-> [i \in 1..Len(s.iterations) |-> IterationToJson(s.iterations[i])]]

protocol_iteration_json_path(asset_id, iteration) ==
    <<"protocol", asset_id, "iteration", iteration>>

protocol_state_json_path(asset_id) == <<"protocol", asset_id, "state">>

LoopProtocolState(asset_id, max_iterations, iterations, decision) ==
    [asset_id |-> asset_id, max_iterations |-> max_iterations,
     iterations |-> iterations, decision |-> decision]

Last(s) == s[Len(s)]

\* ----------------------------------------------------------------- text
\* A text is a sequence of characters; NL is the newline character.
NL == "\n"
Letters == <<"a", "b", "c", "d">>
ContentOf(id) == <<Letters[id]>>        \* the text of the candidate with this id
TextFormat == {"markdown", "plain", "html"}
CandFormats == {"markdown", "plain"}    \* format tags the creator chooses from

\* "text if text.endswith('\n') else text + '\n'"
_normalize_selected_text(text) ==
    IF Len(text) > 0 /\ text[Len(text)] = NL THEN text ELSE Append(text, NL)

\* str.splitlines(): lines without their terminators, no empty last line
RECURSIVE SplitLines(_, _, _)
SplitLines(text, cur, acc) ==
    IF text = <<>> THEN (IF cur = <<>> THEN acc ELSE Append(acc, cur))
    ELSE IF Head(text) = NL THEN SplitLines(Tail(text), <<>>, Append(acc, cur))
    ELSE SplitLines(Tail(text), Append(cur, Head(text)), acc)

\* _BlockRenderer.flush_paragraph: the paragraph lines joined with spaces
RECURSIVE JoinWith(_, _)
JoinWith(seqs, sep) ==
    IF seqs = <<>> THEN <<>>
    ELSE IF Len(seqs) = 1 THEN seqs[1]
    ELSE seqs[1] \o <<sep>> \o JoinWith(Tail(seqs), sep)

flush_paragraph(out, paragraph_lines) ==
    IF paragraph_lines = <<>> THEN out
    ELSE Append(out, <<"<p>">> \o JoinWith(paragraph_lines, " ") \o <<"</p>">>)

\* _consume_markdown_line over all lines, for lines made of letters only
\* (no heading, list or inline markup characters): blank lines end a paragraph
RECURSIVE ConsumeLines(_, _, _)
ConsumeLines(lines, out, paragraph_lines) ==
    IF lines = <<>> THEN flush_paragraph(out, paragraph_lines)
    ELSE IF Head(lines) = <<>>
    THEN ConsumeLines(Tail(lines), flush_paragraph(out, paragraph_lines), <<>>)
    ELSE ConsumeLines(Tail(lines), out, Append(paragraph_lines, Head(lines)))

\* "\n".join(renderer.out).rstrip() + "\n"
markdown_to_deterministic_html(markdown_text) ==
    JoinWith(ConsumeLines(SplitLines(markdown_text, <<>>, <<>>), <<>>, <<>>), NL) \o <<NL>>

\* ------------------------------------------------------ workspace store
\* selected-text files: (asset id, format) -> optional text
write_selected_text(selected, asset_id, fmt, content) ==
    LET c == IF Len(content) > 0 /\ content[Len(content)] = NL
             THEN content ELSE Append(content, NL)
        s1 == [selected EXCEPT ![<<asset_id, fmt>>] = Some(c)]
    IN IF fmt = "markdown"
       THEN [s1 EXCEPT ![<<asset_id, "html">>] = Some(markdown_to_deterministic_html(c))]
       ELSE s1

\* candidate JSON files: (asset id, candidate id) -> optional candidate
write_candidate(files, candidate) ==
    [files EXCEPT ![<<candidate.asset_id, candidate.candidate_id>>] = Some(candidate)]

\* review JSON files: (asset id, iteration) -> optional review
write_review(files, asset_id, review) ==
    [files EXCEPT ![<<asset_id, review.iteration>>] = Some(review)]

\* ----------------------------------------------------- orchestrator core
_LOCKED_DECISION_ASSETS == {"slug", "title_detail", "title_seo", "subtitle_auphonic"}

_locked_selected_text(selected, asset_id, fmt) ==
    IF asset_id \notin _LOCKED_DECISION_ASSETS THEN None
    ELSE IF IsNone(selected[<<asset_id, fmt>>]) THEN None
    ELSE Some(_normalize_selected_text(Val(selected[<<asset_id, fmt>>])))

LockedIssue == [severity |-> "error", code |-> "locked_selection"]

\* the issue is appended and the verdict left as the reviewer gave it
_apply_locked_selection_issue_keep_verdict(review) ==
    [review EXCEPT !.issues = Append(@, LockedIssue)]

_apply_locked_selection_issue(review) ==
    [review EXCEPT !.issues = Append(@, LockedIssue),
                   !.verdict = IF @ = "ok" THEN "changes_requested" ELSE @]

\* the closure returned by _wrap_reviewer_with_locked_decisions, applied to
\* the inner reviewer's review of candidate
wrapped(selected, asset_id, candidate, review) ==
    LET locked == _locked_selected_text(selected, asset_id, candidate.format)
    IN IF IsNone(locked) THEN review
       ELSE IF _normalize_selected_text(candidate.content) = Val(locked) THEN review
       ELSE _apply_locked_selection_issue(review)

\* candidates sorted by (created_at, str(candidate_id))
KeyLess(c1, c2) ==
    \/ c1.created_at < c2.created_at
    \/ c1.created_at = c2.created_at /\ c1.candidate_id < c2.candidate_id

_load_seed_candidates(files, asset_id) ==
    {Val(files[k]) : k \in {j \in DOMAIN files : j[1] = asset_id /\ ~IsNone(files[j])}}

\* the candidate with the greatest id, whatever its creation time
_select_seed_candidate_by_id(candidates) ==
    IF candidates = {} THEN None
    ELSE Some(CHOOSE c \in candidates :
                 \A d \in candidates : d.candidate_id <= c.candidate_id)

_select_seed_candidate(candidates) ==
    IF candidates = {} THEN None
    ELSE Some(CHOOSE c \in candidates : \A d \in candidates : d = c \/ KeyLess(d, c))

\* Asset._validate_relations: TRUE when the Asset model is accepted
RECURSIVE StrictlyIncreasing(_)
StrictlyIncreasing(nums) ==
    \/ Len(nums) <= 1
    \/ nums[1] < nums[2] /\ StrictlyIncreasing(Tail(nums))

CandidateIdsOf(cands) == {cands[i].candidate_id : i \in 1..Len(cands)}

_validate_relations(asset) ==
    /\ \A i \in 1..Len(asset.candidates) : asset.candidates[i].asset_id = asset.asset_id
    /\ \A i, j \in 1..Len(asset.candidates) :
          i # j => asset.candidates[i].candidate_id # asset.candidates[j].candidate_id
    /\ StrictlyIncreasing([i \in 1..Len(asset.reviews) |-> asset.reviews[i].iteration])
    /\ (~IsNone(asset.selected_candidate_id) =>
            Val(asset.selected_candidate_id) \in CandidateIdsOf(asset.candidates))

\* an append, whether or not the asset id is already present
_upsert_asset_append(assets, updated) == Append(assets, updated)

_upsert_asset(assets, updated) ==
    IF \E i \in 1..Len(assets) : assets[i].asset_id = updated.asset_id
    THEN [i \in 1..Len(assets) |->
             IF assets[i].asset_id = updated.asset_id THEN updated ELSE assets[i]]
    ELSE Append(assets, updated)

\* the Asset built by _write_workspace_state for the run's protocol state
LoopAsset(asset_id, protocol_state, selected_candidate_id) ==
    [asset_id |-> asset_id,
     candidates |-> [i \in 1..Len(protocol_state.iterations) |->
                        protocol_state.iterations[i].candidate],
     reviews |-> [i \in 1..Len(protocol_state.iterations) |->
                     protocol_state.iterations[i].review],
     selected_candidate_id |-> selected_candidate_id]

\* the aggregate entry of an asset, None when the asset has none
AssetEntry(assets, asset_id) ==
    IF \E i \in 1..Len(assets) : assets[i].asset_id = asset_id
    THEN Some(assets[CHOOSE i \in 1..Len(assets) : assets[i].asset_id = asset_id])
    ELSE None

Pointer(assets, asset_id) ==
    IF IsNone(AssetEntry(assets, asset_id)) THEN None
    ELSE Val(AssetEntry(assets, asset_id)).selected_candidate_id

\* candidates of a set as the list sorted by (created_at, str(candidate_id))
RECURSIVE SortedCandidates(_)
SortedCandidates(cands) ==
    IF cands = {} THEN <<>>
    ELSE LET first == CHOOSE c \in cands : \A d \in cands : d = c \/ KeyLess(c, d)
         IN <<first>> \o SortedCandidates(cands \ {first})

\* pick_core._merge_candidates: the loaded candidates, then the existing
\* entry's candidates whose id was not loaded
_merge_candidates(existing, candidates) ==
    IF IsNone(existing) THEN candidates
    ELSE candidates \o SelectSeq(Val(existing).candidates,
             LAMBDA c : c.candidate_id \notin CandidateIdsOf(candidates))

build_asset(asset_id, existing, candidates, selected_candidate_id) ==
    [asset_id |-> asset_id,
     candidates |-> _merge_candidates(existing, candidates),
     reviews |-> IF IsNone(existing) THEN <<>> ELSE Val(existing).reviews,
     selected_candidate_id |-> Some(selected_candidate_id)]

\* ---------------------------------------------------------------- state
VARIABLES
    pc,                 \* "idle" | "creator" | "reviewer": where the engine waits
    op,                 \* operation in progress or last completed: "none" |
                        \* "advance" | "orchestrator" | "select_candidate"
    call,               \* optional arguments of the current/last engine call
    iteration,          \* loop variable of run_review_loop_engine
    iterations,         \* local list of recorded LoopProtocolIteration
    writes,             \* local list of ProtocolWrite
    prev_candidate,     \* optional
    prev_review,        \* optional
    creator_out,        \* optional creator output awaiting its review
    result,             \* outcome of the last engine call / orchestrator run
    calls,              \* engine calls / orchestrator runs started so far
    work,               \* sum of the max_iterations of the orchestrator runs
    creator_calls,      \* creator invocations of the current/last call
    reviewer_calls,     \* reviewer invocations of the current/last call
    last_creator_in,    \* optional input the inner creator received last
    last_review_call,   \* optional record of the last reviewer call
    selected,           \* selected-text files
    state_json,         \* aggregate workspace document: list of assets
    candidate_files,    \* candidate JSON files
    review_files,       \* review JSON files
    protocol_files,     \* protocol documents by path
    seed_candidate,     \* optional seed of the current orchestrator run
    used,               \* _SeededCreator._used
    before,             \* store as it was when the last orchestrator run began
    picked,             \* assets with a selection made by hand since their last run
    jobs,               \* review worker thread of each asset: its position and locals
    wrapper_call,       \* optional record of the last call of a _SeededCreator
    writer              \* _write_protocol_files at the level of its file operations

frameVars == <<pc, op, call, iteration, iterations, writes, prev_candidate,
               prev_review, creator_out, result, calls, work, creator_calls,
               reviewer_calls, last_creator_in, last_review_call>>
storeVars == <<selected, state_json, candidate_files, review_files, protocol_files>>
orchVars == <<seed_candidate, used, before, picked, wrapper_call, writer>>
vars == <<frameVars, storeVars, orchVars, jobs>>

ProtocolPaths ==
    {protocol_iteration_json_path(a, n) : a \in AssetIds, n \in 1..MaxIter}
        \cup {protocol_state_json_path(a) : a \in AssetIds}

NoResult == [status |-> "none", state |-> None, writes |-> <<>>, error |-> "none"]

\* no commit is writing; disk maps a protocol path to the optional file: the
\* document being written and how many of its bytes are in the file
NoWriter ==
    [pc |-> "idle", pending |-> <<>>, commits |-> 0,
     disk |-> [p \in ProtocolPaths |-> None]]

\* a review worker thread that was not started
NoJob == [pc |-> "idle", protocol_state |-> None, protocol_writes |-> <<>>, workspace |-> <<>>]

\* everything but the candidate files: no call was made, the store is empty
BaseInit ==
    /\ pc = "idle"
    /\ op = "none"
    /\ call = None
    /\ iteration = 0
    /\ iterations = <<>>
    /\ writes = <<>>
    /\ prev_candidate = None
    /\ prev_review = None
    /\ creator_out = None
    /\ result = NoResult
    /\ calls = 0
    /\ work = 0
    /\ creator_calls = 0
    /\ reviewer_calls = 0
    /\ last_creator_in = None
    /\ last_review_call = None
    /\ selected = [k \in AssetIds \X TextFormat |-> None]
    /\ state_json = <<>>
    /\ review_files = [k \in AssetIds \X (1..MaxIter) |-> None]
    /\ protocol_files = [p \in ProtocolPaths |-> None]
    /\ seed_candidate = None
    /\ used = FALSE
    /\ before = [selected |-> [k \in AssetIds \X TextFormat |-> None],
                 state_json |-> <<>>,
                 protocol_files |-> [p \in ProtocolPaths |-> None],
                 candidate_files |-> [k \in AssetIds \X CandIds |-> None],
                 review_files |-> [k \in AssetIds \X (1..MaxIter) |-> None],
                 picked |-> {}]
    /\ picked = {}
    /\ jobs = [a \in AssetIds |-> NoJob]
    /\ wrapper_call = None
    /\ writer = NoWriter

\* a fresh workspace: no candidate was persisted
Init ==
    /\ BaseInit
    /\ candidate_files = [k \in AssetIds \X CandIds |-> None]

\* ------------------------------------------------------ agent input sets
Issue(sev, code) == [severity |-> sev, code |-> code]

\* issues the inner reviewer attaches to each verdict
IssuesFor(verdict) ==
    IF verdict = "changes_requested" THEN <<Issue("error", "style")>> ELSE <<>>

\* reviews an inner reviewer may return when asked about iteration it: any
\* verdict; called directly it may also return a different iteration number
ReviewerOutputs(it) ==
    {[iteration |-> n, verdict |-> v, issues |-> IssuesFor(v)] :
        n \in (IF op = "advance" THEN {it, it + 1} ELSE {it}), v \in ReviewVerdict}

\* creation time of the candidate with this id: ids and times are ordered
\* differently, and ids two apart share a time
CreatedAt(id) == id % 2

Candidate(id, asset_id, fmt, content, created_at) ==
    [candidate_id |-> id, asset_id |-> asset_id, format |-> fmt,
     content |-> content, created_at |-> created_at]

OtherAsset(a) == CHOOSE b \in AssetIds : b # a

\* candidates a creator may return for asset a: called directly, any id and
\* either asset id; under the orchestrator, any id and format, or one
\* candidate of the wrong asset
CreatorCandidates(a) ==
    IF op = "advance"
    THEN {Candidate(id, b, "markdown", ContentOf(id), CreatedAt(id)) :
              id \in CandIds, b \in AssetIds}
    ELSE {Candidate(id, a, f, ContentOf(id), CreatedAt(id)) : id \in CandIds, f \in CandFormats}
             \cup {Candidate(1, OtherAsset(a), "markdown", ContentOf(1), CreatedAt(1))}

\* existing states a caller constructs by hand
ConstructedIteration ==
    [iteration |-> 1, creator_done |-> FALSE,
     candidate |-> Candidate(1, "slug", "markdown", ContentOf(1), 0),
     review |-> [iteration |-> 1, verdict |-> "changes_requested",
                 issues |-> IssuesFor("changes_requested")]]

ConstructedDecisions ==
    {[outcome |-> o, final_iteration |-> 1, reason |-> "constructed", locked_fields |-> L] :
        o \in LoopOutcome,
        L \in {{}, {"outcome"}, {"final_iteration", "reason"}, DecisionFields}}

ConstructedStates ==
    {LoopProtocolState("slug", MaxIter, its, d) :
        its \in {<<>>, <<ConstructedIteration>>},
        d \in {None} \cup {Some(x) : x \in ConstructedDecisions}}

\* hand-built existing states that already hold max_iterations iterations,
\* or one more, with a decision that is not frozen
ConstructedSecondIteration ==
    [iteration |-> 2, creator_done |-> TRUE,
     candidate |-> Candidate(2, "slug", "markdown", ContentOf(2), CreatedAt(2)),
     review |-> [iteration |-> 2, verdict |-> "needs_human",
                 issues |-> IssuesFor("needs_human")]]

FullStates ==
    {LoopProtocolState("slug", 1, its, d) :
        its \in {<<ConstructedIteration>>,
                 <<ConstructedIteration, ConstructedSecondIteration>>},
        d \in {None} \cup
              {Some(x) : x \in {y \in ConstructedDecisions :
                                  y.locked_fields \in {{}, {"final_iteration", "reason"}}}}}

\* ------------------------------------------------------- engine: leaving
ResetLocals ==
    /\ pc' = "idle"
    /\ iteration' = 0
    /\ iterations' = <<>>
    /\ writes' = <<>>
    /\ prev_candidate' = None
    /\ prev_review' = None
    /\ creator_out' = None

\* _write_protocol_files: every write replaces the document at its path
RECURSIVE _write_protocol_files(_, _)
_write_protocol_files(files, ws) ==
    IF ws = <<>> THEN files
    ELSE _write_protocol_files([files EXCEPT ![Head(ws).path] = Some(Head(ws).json_data)],
                               Tail(ws))

\* the exception leaves after the protocol writes gathered so far were made
RaiseAfterWrites(error) ==
    /\ ResetLocals
    /\ result' = [status |-> "raised", state |-> None, writes |-> <<>>, error |-> error]
    /\ protocol_files' = _write_protocol_files(protocol_files, writes)
    /\ UNCHANGED <<selected, state_json, candidate_files, review_files>>

\* an exception leaves run_review_loop_engine (and the orchestrator, which
\* catches nothing): nothing is committed
Raise(error) ==
    /\ ResetLocals
    /\ result' = [status |-> "raised", state |-> None, writes |-> <<>>, error |-> error]
    /\ UNCHANGED storeVars

RECURSIVE WriteCandidates(_, _)
WriteCandidates(files, its) ==
    IF its = <<>> THEN files
    ELSE WriteCandidates(write_candidate(files, Head(its).candidate), Tail(its))

RECURSIVE WriteReviews(_, _, _)
WriteReviews(files, asset_id, its) ==
    IF its = <<>> THEN files
    ELSE WriteReviews(write_review(files, asset_id, Head(its).review), asset_id, Tail(its))

ConvergedOrTerminal(protocol_state) ==
    /\ ~IsNone(protocol_state.decision)
    /\ is_terminal(Val(protocol_state.decision))

\* line 193: the decision exists and its outcome is converged
Converged(protocol_state) ==
    /\ ~IsNone(protocol_state.decision)
    /\ Val(protocol_state.decision).outcome = "converged"

\* the candidate whose content _write_loop_artifacts selects
SelectedIterationFirst(protocol_state) == protocol_state.iterations[1]

SelectedIteration(protocol_state) == Last(protocol_state.iterations)

\* selected_candidate_id computed by _write_loop_artifacts
SelectedCandidateId(store_assets, asset_id, protocol_state) ==
    IF protocol_state.iterations # <<>> /\ Converged(protocol_state)
    THEN Some(SelectedIteration(protocol_state).candidate.candidate_id)
    ELSE None

\* run_review_loop_orchestrator after the engine returned:
\* _write_protocol_files, then _write_loop_artifacts
Commit(asset_id, protocol_state, protocol_writes) ==
    LET its == protocol_state.iterations
        asset == LoopAsset(asset_id, protocol_state,
                           SelectedCandidateId(state_json, asset_id, protocol_state))
    IN /\ protocol_files' = _write_protocol_files(protocol_files, protocol_writes)
       /\ candidate_files' = WriteCandidates(candidate_files, its)
       /\ review_files' = WriteReviews(review_files, asset_id, its)
       /\ selected' = IF its # <<>> /\ Converged(protocol_state)
                      THEN write_selected_text(selected, asset_id,
                               SelectedIteration(protocol_state).candidate.format,
                               SelectedIteration(protocol_state).candidate.content)
                      ELSE selected
       /\ IF _validate_relations(asset)
          THEN /\ state_json' = _upsert_asset(state_json, asset)
               /\ result' = [status |-> "returned", state |-> Some(protocol_state),
                             writes |-> protocol_writes, error |-> "none"]
          ELSE /\ state_json' = state_json
               /\ result' = [status |-> "raised", state |-> None, writes |-> <<>>,
                             error |-> "asset_validation"]

\* run_review_loop_engine returns (state, writes) to its caller
Return(protocol_state, protocol_writes) ==
    /\ ResetLocals
    /\ IF op' = "orchestrator"
       THEN Commit(protocol_state.asset_id, protocol_state, protocol_writes)
       ELSE /\ result' = [status |-> "returned", state |-> Some(protocol_state),
                          writes |-> protocol_writes, error |-> "none"]
            /\ UNCHANGED storeVars

\* the state is returned without the write of the state document
FinishNoStateWrite(a, m, existing_decision, its, ws, decision) ==
    Return(LoopProtocolState(a, m, its, _merge_decision(existing_decision, decision)), ws)

\* a loop that ends without a decision is given the iteration-limit decision
FinishDecidingAtLimit(a, m, existing_decision, its, ws, decision) ==
    LET decided == IF IsNone(decision)
                   THEN Some(_terminal_decision("needs_human", m, "iteration_limit"))
                   ELSE decision
        state2 == LoopProtocolState(a, m, its, _merge_decision(existing_decision, decided))
    IN Return(state2, Append(ws, [path |-> protocol_state_json_path(a),
                                  json_data |-> StateToJson(state2)]))

\* lines 177-184: build state2, append the state-document write, return
Finish(a, m, existing_decision, its, ws, decision) ==
    LET state2 == LoopProtocolState(a, m, its, _merge_decision(existing_decision, decision))
    IN Return(state2, Append(ws, [path |-> protocol_state_json_path(a),
                                  json_data |-> StateToJson(state2)]))

FrozenAllLocked(state) ==
    /\ ~IsNone(state.decision)
    /\ is_terminal(Val(state.decision))
    /\ Val(state.decision).locked_fields = DecisionFields

\* line 118: the decision exists, is terminal and has "outcome" locked
Frozen(state) ==
    /\ ~IsNone(state.decision)
    /\ is_terminal(Val(state.decision))
    /\ is_locked(Val(state.decision), "outcome")

start_iteration_one(its) == 1

\* a loop without recorded iterations starts at iteration 2
start_iteration_skip(its) == IF its # <<>> THEN Last(its).iteration + 1 ELSE 2

\* line 126: the number of the first iteration the loop runs
start_iteration(its) == IF its # <<>> THEN Last(its).iteration + 1 ELSE 1

CallerErrorNoLimitCheck(a, m, state) ==
    IF m < 1 THEN "max_iterations"
    ELSE IF state.asset_id # a THEN "existing.asset_id"
    ELSE "none"

\* lines 109-116: the ValueError the arguments raise, "none" when they are valid
CallerError(a, m, state) ==
    IF m < 1 THEN "max_iterations"
    ELSE IF state.asset_id # a THEN "existing.asset_id"
    ELSE IF state.max_iterations # m THEN "existing.max_iterations"
    ELSE "none"

\* run_review_loop_engine up to its first agent call (lines 109-130)
Enter(a, m, existing) ==
    LET state == IF IsNone(existing) THEN LoopProtocolState(a, m, <<>>, None)
                 ELSE Val(existing)
        its == state.iterations
        start == start_iteration(its)
    IN /\ creator_calls' = 0
       /\ reviewer_calls' = 0
       /\ IF CallerError(a, m, state) # "none" THEN Raise(CallerError(a, m, state))
          ELSE IF Frozen(state)
          THEN Return(state, <<>>)
          ELSE IF start > m
          THEN Finish(a, m, state.decision, its, <<>>, state.decision)
          ELSE /\ pc' = "creator"
               /\ iteration' = start
               /\ iterations' = its
               /\ writes' = <<>>
               /\ prev_candidate' = IF its # <<>> THEN Some(Last(its).candidate) ELSE None
               /\ prev_review' = IF its # <<>> THEN Some(Last(its).review) ELSE None
               /\ creator_out' = None
               /\ result' = NoResult
               /\ UNCHANGED storeVars

\* --------------------------------------------------------------- actions
\* a caller invokes run_review_loop_engine directly: with no existing state,
\* with the state the previous call returned, or with a hand-built state
ExistingChoices(a, m) ==
    {<<None, "none">>}
        \cup (IF IsNone(result.state) THEN {}
              ELSE {<<result.state,
                      IF /\ Val(call).origin \in {"none", "output"}
                         /\ Val(call).asset_id = a
                         /\ Val(call).max_iterations = m
                      THEN "output" ELSE "other">>})
        \cup {<<Some(st), "constructed">> : st \in ConstructedStates \cup FullStates}

AdvanceCall ==
    /\ UNCHANGED jobs
    /\ pc = "idle"
    /\ calls < MaxCalls
    /\ \E a \in AssetIds, m \in 0..MaxIter :
       \E ex \in ExistingChoices(a, m) :
          /\ call' = Some([asset_id |-> a, max_iterations |-> m,
                           existing |-> ex[1], origin |-> ex[2]])
          /\ op' = "advance"
          /\ calls' = calls + 1
          /\ Enter(a, m, ex[1])
    /\ last_review_call' = None
    /\ UNCHANGED <<work, last_creator_in, orchVars>>

\* run_review_loop_orchestrator is invoked (no seed_candidate argument):
\* resolve the seed, wrap the agents, call the engine without existing state
OrchestratorCall ==
    /\ UNCHANGED <<jobs, wrapper_call, writer>>
    /\ pc = "idle"
    /\ calls < MaxCalls
    /\ \E a \in AssetIds, m \in 0..MaxIter :
          /\ work + m <= MaxWork
          /\ work' = work + m
          /\ call' = Some([asset_id |-> a, max_iterations |-> m,
                           existing |-> None, origin |-> "none"])
          /\ op' = "orchestrator"
          /\ calls' = calls + 1
          /\ seed_candidate' = _select_seed_candidate(_load_seed_candidates(candidate_files, a))
          /\ used' = FALSE
          /\ before' = [selected |-> selected, state_json |-> state_json,
                        protocol_files |-> protocol_files,
                        candidate_files |-> candidate_files,
                        review_files |-> review_files, picked |-> picked]
          /\ picked' = picked \ {a}
          /\ Enter(a, m, None)
    /\ UNCHANGED <<last_creator_in, last_review_call>>

\* the seed replaces every null previous_candidate
SeededCreatorInputAlways(seed, is_used, inp) ==
    IF IsNone(inp.previous_candidate)
    THEN [asset_id |-> inp.asset_id, iteration |-> inp.iteration,
          previous_candidate |-> Some(seed), previous_review |-> inp.previous_review]
    ELSE inp

\* _SeededCreator.__call__: the input the inner creator receives
SeededCreatorInput(seed, is_used, inp) ==
    IF ~is_used /\ IsNone(inp.previous_candidate)
    THEN [asset_id |-> inp.asset_id, iteration |-> inp.iteration,
          previous_candidate |-> Some(seed), previous_review |-> inp.previous_review]
    ELSE inp

\* _SeededCreator.__call__: _used after the call
SeededCreatorUsed(is_used, inp) == is_used \/ IsNone(inp.previous_candidate)

\* creator_runner: the creator itself without a seed, else the _SeededCreator
SeededInput(inp) ==
    IF op = "orchestrator" /\ ~IsNone(seed_candidate)
    THEN SeededCreatorInput(Val(seed_candidate), used, inp)
    ELSE inp

\* an input without the previous iteration's candidate and review
CreatorInputNoContext(asset_id, it, previous_candidate, previous_review) ==
    [asset_id |-> asset_id, iteration |-> it,
     previous_candidate |-> None, previous_review |-> None]

\* lines 132-137: the CreatorInput the engine builds for an iteration
CreatorInput(asset_id, it, previous_candidate, previous_review) ==
    [asset_id |-> asset_id, iteration |-> it,
     previous_candidate |-> previous_candidate, previous_review |-> previous_review]

AssetIdMismatchIgnored(candidate, asset_id) == FALSE

\* lines 139-140: the returned candidate belongs to another asset
AssetIdMismatch(candidate, asset_id) == candidate.asset_id # asset_id

\* the creator returns (lines 131-140)
CreatorReturns ==
    /\ UNCHANGED <<jobs, wrapper_call, writer>>
    /\ pc = "creator"
    /\ LET a == Val(call).asset_id
           inp == CreatorInput(a, iteration, prev_candidate, prev_review)
       IN /\ last_creator_in' = Some(SeededInput(inp))
          /\ used' = IF op = "orchestrator" /\ ~IsNone(seed_candidate)
                     THEN SeededCreatorUsed(used, inp) ELSE used
          /\ creator_calls' = creator_calls + 1
          /\ \E c \in CreatorCandidates(a), done \in BOOLEAN :
                IF AssetIdMismatch(c, a)
                THEN Raise("candidate.asset_id")
                ELSE /\ pc' = "reviewer"
                     /\ creator_out' = Some([candidate |-> c, done |-> done])
                     /\ UNCHANGED <<iteration, iterations, writes, prev_candidate,
                                    prev_review, result, storeVars>>
    /\ UNCHANGED <<op, call, calls, work, reviewer_calls, last_review_call,
                   seed_candidate, before, picked>>

\* the reviewer returns (lines 142-175), and the loop either continues with
\* the next creator call or ends (lines 177-184)
ReviewerReturns ==
    /\ UNCHANGED jobs
    /\ pc = "reviewer"
    /\ UNCHANGED <<op, call, calls, work, creator_calls, last_creator_in, orchVars>>
    /\ LET a == Val(call).asset_id
           m == Val(call).max_iterations
           out == Val(creator_out)
           existing_decision == IF IsNone(Val(call).existing) THEN None
                                ELSE Val(Val(call).existing).decision
       IN \E inner \in ReviewerOutputs(iteration) :
          LET returned == IF op = "orchestrator"
                          THEN wrapped(selected, a, out.candidate, inner)
                          ELSE inner
              review_out == _normalize_review_iteration(returned, iteration)
              protocol_iteration == [iteration |-> iteration, creator_done |-> out.done,
                                     candidate |-> out.candidate, review |-> review_out]
              its == Append(iterations, protocol_iteration)
              ws == Append(writes, [path |-> protocol_iteration_json_path(a, iteration),
                                    json_data |-> IterationToJson(protocol_iteration)])
              decision == _decide_outcome(review_out, out.done, iteration, m)
          IN /\ reviewer_calls' = reviewer_calls + 1
             /\ last_review_call' =
                    Some([asset_id |-> a, candidate |-> out.candidate,
                          inner |-> inner, returned |-> returned,
                          selected |-> selected])
             /\ IF ~IsNone(decision) \/ iteration + 1 > m
                THEN Finish(a, m, existing_decision, its, ws, decision)
                ELSE /\ pc' = "creator"
                     /\ iteration' = iteration + 1
                     /\ iterations' = its
                     /\ writes' = ws
                     /\ prev_candidate' = Some(out.candidate)
                     /\ prev_review' = Some(review_out)
                     /\ creator_out' = None
                     /\ UNCHANGED <<result, storeVars>>

\* the agent the engine waits for raises: the error leaves the engine
AgentRaises ==
    /\ UNCHANGED jobs
    /\ pc \in {"creator", "reviewer"}
    /\ creator_calls' = IF pc = "creator" THEN creator_calls + 1 ELSE creator_calls
    /\ reviewer_calls' = IF pc = "reviewer" THEN reviewer_calls + 1 ELSE reviewer_calls
    /\ Raise("agent")
    /\ UNCHANGED <<op, call, calls, work, last_creator_in, last_review_call, orchVars>>

\* DashboardContext.select_candidate: a human picks a persisted candidate
SelectCandidate ==
    /\ UNCHANGED <<jobs, wrapper_call, writer>>
    /\ pc = "idle"
    /\ \E a \in AssetIds, id \in CandIds :
          /\ ~IsNone(candidate_files[<<a, id>>])
          /\ LET match == Val(candidate_files[<<a, id>>])
                 asset_candidates == SortedCandidates(_load_seed_candidates(candidate_files, a))
                 existing == AssetEntry(state_json, a)
             IN /\ selected' = write_selected_text(selected, a, match.format, match.content)
                /\ state_json' = _upsert_asset(state_json,
                       build_asset(a, existing, asset_candidates, match.candidate_id))
                /\ picked' = picked \cup {a}
    /\ op' = "select_candidate"
    /\ UNCHANGED <<pc, call, iteration, iterations, writes, prev_candidate, prev_review,
                   creator_out, result, calls, work, creator_calls, reviewer_calls,
                   last_creator_in, last_review_call>>
    /\ UNCHANGED <<candidate_files, review_files, protocol_files, seed_candidate,
                   used, before>>

Next == AdvanceCall \/ CreatorReturns \/ ReviewerReturns \/ AgentRaises

Spec == Init /\ [][Next]_vars

\* a caller invokes run_review_loop_engine without an existing state
AdvanceFromNoState ==
    /\ UNCHANGED jobs
    /\ pc = "idle"
    /\ calls < MaxCalls
    /\ \E a \in AssetIds, m \in 0..MaxIter :
          /\ call' = Some([asset_id |-> a, max_iterations |-> m,
                           existing |-> None, origin |-> "none"])
          /\ op' = "advance"
          /\ calls' = calls + 1
          /\ Enter(a, m, None)
    /\ last_review_call' = None
    /\ UNCHANGED <<work, last_creator_in, orchVars>>

LiveNext == AdvanceFromNoState \/ CreatorReturns \/ ReviewerReturns

\* the agents always return: a pending creator or reviewer call completes
LiveSpec ==
    Init /\ [][LiveNext]_vars /\ WF_vars(CreatorReturns) /\ WF_vars(ReviewerReturns)

OrchNext ==
    OrchestratorCall \/ SelectCandidate \/ CreatorReturns \/ ReviewerReturns \/ AgentRaises

OrchSpec == Init /\ [][OrchNext]_vars

\* a workspace in which the draft step persisted candidates before any loop ran
DraftedStores ==
    {files \in [AssetIds \X CandIds -> {None} \cup
                    {Some(Candidate(id, a, "markdown", ContentOf(id), CreatedAt(id))) :
                        id \in CandIds, a \in AssetIds}] :
        \A k \in AssetIds \X CandIds :
            ~IsNone(files[k]) =>
                Val(files[k]).asset_id = k[1] /\ Val(files[k]).candidate_id = k[2]}

SeedInit ==
    /\ BaseInit
    /\ candidate_files \in DraftedStores

SeedNext == OrchestratorCall \/ CreatorReturns \/ ReviewerReturns \/ AgentRaises

SeedSpec == SeedInit /\ [][SeedNext]_vars


\* ------------------------------------------- concurrent review workers
\* handle_review starts a daemon thread running _run_review_job for the asset
ReviewJobStart ==
    \E a \in AssetIds :
        /\ jobs[a].pc = "idle"
        /\ jobs' = [jobs EXCEPT ![a].pc = "engine"]
        /\ UNCHANGED <<frameVars, storeVars, orchVars>>

\* the thread's run_review_loop_engine call (max_iterations = 1) returns
ReviewJobEngine ==
    \E a \in AssetIds :
        /\ jobs[a].pc = "engine"
        /\ \E id \in CandIds, done \in BOOLEAN, inner \in ReviewerOutputs(1) :
              LET c == Candidate(id, a, "markdown", ContentOf(id), CreatedAt(id))
                  review_out == _normalize_review_iteration(wrapped(selected, a, c, inner), 1)
                  it == [iteration |-> 1, creator_done |-> done,
                         candidate |-> c, review |-> review_out]
                  state2 == LoopProtocolState(a, 1, <<it>>,
                                _merge_decision(None, _decide_outcome(review_out, done, 1, 1)))
                  ws == <<[path |-> protocol_iteration_json_path(a, 1),
                           json_data |-> IterationToJson(it)],
                          [path |-> protocol_state_json_path(a),
                           json_data |-> StateToJson(state2)]>>
              IN jobs' = [jobs EXCEPT ![a].pc = "artifacts",
                                      ![a].protocol_state = Some(state2),
                                      ![a].protocol_writes = ws]
        /\ UNCHANGED <<frameVars, storeVars, orchVars>>

\* _write_protocol_files, then _write_loop_artifacts up to its call of
\* _write_workspace_state: files of the thread's own asset
ReviewJobArtifacts ==
    \E a \in AssetIds :
        /\ jobs[a].pc = "artifacts"
        /\ LET protocol_state == Val(jobs[a].protocol_state)
           IN /\ protocol_files' = _write_protocol_files(protocol_files, jobs[a].protocol_writes)
              /\ candidate_files' = WriteCandidates(candidate_files, protocol_state.iterations)
              /\ review_files' = WriteReviews(review_files, a, protocol_state.iterations)
              /\ selected' = IF Converged(protocol_state)
                             THEN write_selected_text(selected, a,
                                      SelectedIteration(protocol_state).candidate.format,
                                      SelectedIteration(protocol_state).candidate.content)
                             ELSE selected
        /\ jobs' = [jobs EXCEPT ![a].pc = "load"]
        /\ UNCHANGED <<frameVars, orchVars, state_json>>

\* _write_workspace_state line 216: workspace = _load_workspace(store)
ReviewJobLoadWorkspace ==
    \E a \in AssetIds :
        /\ jobs[a].pc = "load"
        /\ jobs' = [jobs EXCEPT ![a].pc = "write", ![a].workspace = state_json]
        /\ UNCHANGED <<frameVars, storeVars, orchVars>>

\* the Asset the thread of asset a builds from its protocol state
JobAsset(a) ==
    LoopAsset(a, Val(jobs[a].protocol_state),
              SelectedCandidateId(jobs[a].workspace, a, Val(jobs[a].protocol_state)))

\* _write_workspace_state lines 217-227: upsert into the loaded copy, write it
ReviewJobWriteState ==
    \E a \in AssetIds :
        /\ jobs[a].pc = "write"
        /\ state_json' = _upsert_asset(jobs[a].workspace, JobAsset(a))
        /\ jobs' = [jobs EXCEPT ![a].pc = "done"]
        /\ UNCHANGED <<frameVars, orchVars, selected, candidate_files, review_files,
                       protocol_files>>

JobsNext ==
    \/ ReviewJobStart
    \/ ReviewJobEngine
    \/ ReviewJobArtifacts
    \/ ReviewJobLoadWorkspace
    \/ ReviewJobWriteState

JobsSpec == Init /\ [][JobsNext]_vars


\* --------------------------------------------- the seeding wrapper alone
\* inputs a _SeededCreator may be called with
WrapperInputs ==
    {CreatorInput(a, it, c, r) :
        a \in AssetIds, it \in 1..MaxIter,
        c \in {None} \cup {Some(Candidate(id, "slug", "markdown", ContentOf(id), CreatedAt(id))) :
                              id \in CandIds},
        r \in {None} \cup {Some([iteration |-> 1, verdict |-> v, issues |-> IssuesFor(v)]) :
                              v \in ReviewVerdict}}

\* _SeededCreator(seed_candidate=..., creator=...) is constructed: _used = False
SeededCreatorNew ==
    /\ \E id \in CandIds, f \in CandFormats :
          seed_candidate' = Some(Candidate(id, "slug", f, ContentOf(id), CreatedAt(id)))
    /\ used' = FALSE
    /\ wrapper_call' = None
    /\ UNCHANGED <<frameVars, storeVars, before, picked, jobs, writer>>

\* _SeededCreator.__call__(inp)
SeededCreatorCall ==
    /\ ~IsNone(seed_candidate)
    /\ \E inp \in WrapperInputs :
          /\ wrapper_call' =
                 Some([inp |-> inp,
                       passed |-> SeededCreatorInput(Val(seed_candidate), used, inp),
                       seed |-> Val(seed_candidate),
                       first_null |-> IF IsNone(wrapper_call) THEN TRUE
                                      ELSE /\ Val(wrapper_call).first_null
                                           /\ ~IsNone(Val(wrapper_call).inp.previous_candidate)])
          /\ used' = SeededCreatorUsed(used, inp)
    /\ UNCHANGED <<frameVars, storeVars, seed_candidate, before, picked, jobs, writer>>

WrapperNext == SeededCreatorNew \/ SeededCreatorCall

WrapperSpec == Init /\ [][WrapperNext]_vars


\* ------------------------------------- protocol files, write by write
\* the (state, writes) a one-iteration engine run for the asset returns
EngineRunOnce(a, id, done, inner) ==
    LET c == Candidate(id, a, "markdown", ContentOf(id), CreatedAt(id))
        review_out == _normalize_review_iteration(inner, 1)
        it == [iteration |-> 1, creator_done |-> done, candidate |-> c, review |-> review_out]
        state2 == LoopProtocolState(a, 1, <<it>>,
                      _merge_decision(None, _decide_outcome(review_out, done, 1, 1)))
    IN <<[path |-> protocol_iteration_json_path(a, 1), json_data |-> IterationToJson(it)],
         [path |-> protocol_state_json_path(a), json_data |-> StateToJson(state2)]>>

\* run_review_loop_orchestrator line 148: _write_protocol_files(protocol_writes)
\* begins with the writes of a run for asset slug
WriterCommitStart ==
    /\ writer.pc = "idle"
    /\ writer.commits < MaxCalls
    /\ \E id \in CandIds, done \in BOOLEAN, inner \in ReviewerOutputs(1) :
          writer' = [writer EXCEPT !.pc = "next", !.commits = @ + 1,
                                   !.pending = EngineRunOnce("slug", id, done, inner)]
    /\ UNCHANGED <<frameVars, storeVars, seed_candidate, used, before, picked,
                   wrapper_call, jobs>>

\* Path.write_text opens the file with mode "w": it exists and is empty
WriterOpen ==
    /\ writer.pc = "next"
    /\ writer' = [writer EXCEPT
                      !.pc = "opened",
                      !.disk[Head(writer.pending).path] =
                          Some([json_data |-> Head(writer.pending).json_data,
                                bytes |-> "none"])]
    /\ UNCHANGED <<frameVars, storeVars, seed_candidate, used, before, picked,
                   wrapper_call, jobs>>

\* the text reaches the file: all of it, or a first part of it
WriterFlush ==
    /\ writer.pc \in {"opened", "partial"}
    /\ \E b \in (IF writer.pc = "opened" THEN {"some", "all"} ELSE {"all"}) :
          writer' = [writer EXCEPT
                        !.pc = IF b = "all" THEN "flushed" ELSE "partial",
                        !.disk[Head(writer.pending).path] =
                            Some([json_data |-> Head(writer.pending).json_data,
                                  bytes |-> b])]
    /\ UNCHANGED <<frameVars, storeVars, seed_candidate, used, before, picked,
                   wrapper_call, jobs>>

\* the file is closed; the loop of _write_protocol_files goes to the next write
WriterClose ==
    /\ writer.pc = "flushed"
    /\ writer' = [writer EXCEPT
                      !.pending = Tail(@),
                      !.pc = IF Tail(writer.pending) = <<>> THEN "idle" ELSE "next"]
    /\ UNCHANGED <<frameVars, storeVars, seed_candidate, used, before, picked,
                   wrapper_call, jobs>>

\* the commit is interrupted (the process is killed, or a write raises OSError)
WriterInterrupted ==
    /\ writer.pc \in {"next", "opened", "partial", "flushed"}
    /\ writer' = [writer EXCEPT !.pc = "idle", !.pending = <<>>]
    /\ UNCHANGED <<frameVars, storeVars, seed_candidate, used, before, picked,
                   wrapper_call, jobs>>

WriterNext ==
    \/ WriterCommitStart
    \/ WriterOpen
    \/ WriterFlush
    \/ WriterClose
    \/ WriterInterrupted

WriterSpec == Init /\ [][WriterNext]_vars

\* ---------------------------------------------------------------- claims
\* helpers of the claim formulas
CallIs(kind) == ~IsNone(call) /\ op = kind

Returned == pc = "idle" /\ result.status = "returned"

OkAndDone(it) == it.review.verdict = "ok" /\ it.creator_done

ExistingIsFrozen ==
    /\ ~IsNone(Val(call).existing)
    /\ Val(call).max_iterations >= 1
    /\ Val(Val(call).existing).asset_id = Val(call).asset_id
    /\ Val(Val(call).existing).max_iterations = Val(call).max_iterations
    /\ Val(Val(call).existing).decision # None
    /\ Val(Val(Val(call).existing).decision).outcome \in {"converged", "needs_human"}
    /\ "outcome" \in Val(Val(Val(call).existing).decision).locked_fields

\* C1: advance on an existing state whose decision is terminal with "outcome"
\* locked returns that same state with zero writes and never invokes the
\* creator or the reviewer.
C1_FrozenNoOp ==
    (CallIs("advance") /\ ExistingIsFrozen) =>
        /\ pc = "idle"
        /\ result.status = "returned"
        /\ result.state = Val(call).existing
        /\ result.writes = <<>>
        /\ creator_calls = 0
        /\ reviewer_calls = 0

C1_Witness ==
    /\ CallIs("advance") /\ ExistingIsFrozen
    /\ Val(call).origin = "constructed"
    /\ Val(Val(Val(call).existing).decision).locked_fields = {"outcome"}
    /\ Returned

\* C2: started from no state, when k is the first iteration with verdict ok
\* and done, advance returns converged with final_iteration = k, exactly k
\* iterations and k calls of each agent (also when k = max_iterations); the
\* loop never goes on after such an iteration.
C2_ConvergesAtFirstOkDone ==
    (CallIs("advance") /\ Val(call).origin = "none") =>
        /\ (pc # "idle" => \A i \in 1..Len(iterations) : ~OkAndDone(iterations[i]))
        /\ (Returned =>
              LET its == Val(result.state).iterations
              IN \A k \in 1..Len(its) :
                    (OkAndDone(its[k]) /\ \A j \in 1..(k - 1) : ~OkAndDone(its[j])) =>
                        /\ k <= Val(call).max_iterations
                        /\ Val(result.state).decision # None
                        /\ Val(Val(result.state).decision).outcome = "converged"
                        /\ Val(Val(result.state).decision).final_iteration = k
                        /\ Len(its) = k
                        /\ creator_calls = k
                        /\ reviewer_calls = k)

C2_Witness ==
    /\ CallIs("advance") /\ Val(call).origin = "none" /\ Returned
    /\ Val(call).max_iterations = 2
    /\ Len(Val(result.state).iterations) = 2
    /\ OkAndDone(Val(result.state).iterations[2])

\* C3: started from no state, when verdict ok and done never occur in the
\* same iteration, advance returns (it does not raise) needs_human with
\* final_iteration = max_iterations, reason "iteration_limit" and exactly
\* max_iterations iterations.
C3_IterationLimit ==
    (CallIs("advance") /\ Val(call).origin = "none" /\ pc = "idle") =>
        /\ (result.status = "raised" =>
                result.error \in {"max_iterations", "candidate.asset_id", "agent"})
        /\ (result.status = "returned" =>
              LET its == Val(result.state).iterations
              IN (\A i \in 1..Len(its) : ~OkAndDone(its[i])) =>
                    /\ Val(result.state).decision # None
                    /\ Val(Val(result.state).decision).outcome = "needs_human"
                    /\ Val(Val(result.state).decision).final_iteration
                           = Val(call).max_iterations
                    /\ Val(Val(result.state).decision).reason = "iteration_limit"
                    /\ Len(its) = Val(call).max_iterations
                    /\ \A i \in 1..Len(its) : its[i].iteration = i)

C3_Witness ==
    /\ CallIs("advance") /\ Val(call).origin = "none" /\ Returned
    /\ Val(call).max_iterations = 2
    /\ Len(Val(result.state).iterations) = 2
    /\ Val(result.state).iterations[1].creator_done
    /\ Val(result.state).iterations[1].review.verdict = "needs_human"
    /\ Val(result.state).iterations[2].review.verdict = "ok"
    /\ ~Val(result.state).iterations[2].creator_done

\* C4: advance called again on the state an advance call chain from no state
\* returned (same asset_id and max_iterations) returns that state unchanged
\* and runs no further iteration.
C4_IdempotentOnOutput ==
    (CallIs("advance") /\ Val(call).origin = "output") =>
        /\ pc = "idle"
        /\ result.status = "returned"
        /\ result.state = Val(call).existing
        /\ creator_calls = 0
        /\ reviewer_calls = 0

C4_Witness ==
    /\ CallIs("advance") /\ Val(call).origin = "output" /\ Returned
    /\ Len(Val(result.state).iterations) = 1
    /\ Val(call).max_iterations = 2
    /\ Val(Val(result.state).decision).outcome = "converged"

\* ------------------------------------------------- orchestrator claims
RunOf == Val(call).asset_id

RunCompleted == op = "orchestrator" /\ pc = "idle" /\ result.status = "returned"

\* the per-asset protocol state document, None when it was never written
StateDoc(files, a) == files[protocol_state_json_path(a)]

TerminalDoc(files, a) ==
    /\ ~IsNone(StateDoc(files, a))
    /\ ~IsNone(Val(StateDoc(files, a)).decision)
    /\ Val(Val(StateDoc(files, a)).decision).outcome \in {"converged", "needs_human"}

\* C5: once an orchestrator run for an asset has been committed with a
\* terminal decision, a further orchestrator invocation for that asset and
\* max_iterations invokes neither agent (it never waits for one).
C5_TerminalAbsorbing ==
    (op = "orchestrator" /\ ~IsNone(call) /\ TerminalDoc(before.protocol_files, RunOf)
        /\ Val(StateDoc(before.protocol_files, RunOf)).max_iterations
               = Val(call).max_iterations) =>
        /\ pc = "idle"
        /\ creator_calls = 0
        /\ reviewer_calls = 0

\* the texts of an asset's selected-text files in the formats candidates carry
SelectedSources(sel, a) ==
    {f \in CandFormats : ~IsNone(sel[<<a, f>>])}

SameSelection(a) ==
    /\ \A f \in TextFormat : selected[<<a, f>>] = before.selected[<<a, f>>]
    /\ Pointer(state_json, a) = Pointer(before.state_json, a)

\* C6: a run ended needs_human, then a candidate was selected by hand;
\* re-running the orchestrator leaves the selected text and the
\* selected-candidate pointer unchanged.
C6_ManualSelectionKept ==
    (RunCompleted
        /\ TerminalDoc(before.protocol_files, RunOf)
        /\ Val(Val(StateDoc(before.protocol_files, RunOf)).decision).outcome = "needs_human"
        /\ RunOf \in before.picked) =>
        SameSelection(RunOf)

HasLockedIssue(review) ==
    \E i \in 1..Len(review.issues) :
        review.issues[i].severity = "error" /\ review.issues[i].code = "locked_selection"

SameText(t1, t2) ==
    (IF Len(t1) > 0 /\ t1[Len(t1)] = NL THEN t1 ELSE Append(t1, NL))
        = (IF Len(t2) > 0 /\ t2[Len(t2)] = NL THEN t2 ELSE Append(t2, NL))

\* C7: for a locked asset kind whose selected text is T, the wrapped reviewer
\* called on a candidate of any format adds a locked_selection error and
\* returns a verdict other than ok when the content differs from T, and
\* returns the inner review unchanged when it equals T.
C7_LockedSelectionEnforced ==
    ~IsNone(last_review_call) =>
        LET lrc == Val(last_review_call)
        IN \A f \in CandFormats :
              (/\ lrc.asset_id \in _LOCKED_DECISION_ASSETS
               /\ SelectedSources(lrc.selected, lrc.asset_id) = {f}) =>
                  LET T == Val(lrc.selected[<<lrc.asset_id, f>>])
                  IN IF SameText(lrc.candidate.content, T)
                     THEN lrc.returned = lrc.inner
                     ELSE /\ HasLockedIssue(lrc.returned)
                          /\ lrc.returned.verdict
                                 = (IF lrc.inner.verdict = "ok" THEN "changes_requested"
                                    ELSE lrc.inner.verdict)

\* C8: for a locked asset kind with hand-selected text T before a run, the run
\* does not converge on a candidate whose content differs from T, and after
\* the run the selected-text artifact still holds T.
C8_LockedTextSurvives ==
    RunCompleted =>
        \A f \in CandFormats :
            (/\ RunOf \in _LOCKED_DECISION_ASSETS
             /\ RunOf \in before.picked
             /\ SelectedSources(before.selected, RunOf) = {f}) =>
                LET T == Val(before.selected[<<RunOf, f>>])
                IN /\ (Converged(Val(result.state)) =>
                          SameText(Last(Val(result.state).iterations).candidate.content, T))
                   /\ ~IsNone(selected[<<RunOf, f>>])
                   /\ SameText(Val(selected[<<RunOf, f>>]), T)

\* C9: after a run that ends converged, the selected-text file of the last
\* iteration's candidate format holds that candidate's content with a
\* trailing newline, and the aggregate's selected-candidate pointer is that
\* candidate's id, a member of the asset's candidate list.
C9_ConvergedSelection ==
    (RunCompleted /\ Converged(Val(result.state))) =>
        LET final == Last(Val(result.state).iterations).candidate
            entry == AssetEntry(state_json, RunOf)
        IN /\ selected[<<RunOf, final.format>>] = Some(Append(final.content, NL))
           /\ ~IsNone(entry)
           /\ Val(entry).selected_candidate_id = Some(final.candidate_id)
           /\ \E i \in 1..Len(Val(entry).candidates) :
                 Val(entry).candidates[i] = final

C9_Witness ==
    /\ RunCompleted /\ Converged(Val(result.state))
    /\ Len(Val(result.state).iterations) = 2
    /\ Val(result.state).iterations[1].candidate.candidate_id
           # Val(result.state).iterations[2].candidate.candidate_id

\* C10: a run that ends needs_human leaves the asset's selected-candidate
\* pointer as it was before the run.
C10_NeedsHumanKeepsPointer ==
    (RunCompleted /\ ~Converged(Val(result.state))) =>
        Pointer(state_json, RunOf) = Pointer(before.state_json, RunOf)

\* an orchestrator run has ended: it raised, or it reached its commit
RunEnded == op = "orchestrator" /\ ~IsNone(call) /\ pc = "idle"

\* the run reached _write_loop_artifacts (it returned, or the Asset was rejected)
RunCommitted ==
    RunEnded /\ (result.status = "returned" \/ result.error = "asset_validation")

\* decision and last candidate of the protocol state document the run wrote
RunDecision == Val(Val(StateDoc(protocol_files, RunOf)).decision)

RunFinalCandidate ==
    LET its == Val(StateDoc(protocol_files, RunOf)).iterations
    IN its[Len(its)].creator.candidate

\* C11: the orchestrator writes the asset's selected text exactly when the
\* run's final decision is converged: then the file of the final candidate's
\* format holds its content, and a run that ends needs_human (or raises in
\* the engine) leaves every selected-text file as it was before the run.
C11_SelectedWrittenIffConverged ==
    RunEnded =>
        IF RunCommitted /\ RunDecision.outcome = "converged"
        THEN /\ selected[<<RunOf, RunFinalCandidate.format>>]
                    = Some(Append(RunFinalCandidate.content, NL))
             /\ \A k \in DOMAIN selected :
                    k[1] # RunOf => selected[k] = before.selected[k]
        ELSE selected = before.selected

C11_Witness ==
    /\ RunCommitted
    /\ RunDecision.outcome = "needs_human"
    /\ ~IsNone(before.selected[<<RunOf, "markdown">>])
    /\ selected = before.selected

\* candidates persisted for the asset of the current run
PersistedCandidates ==
    {Val(candidate_files[k]) :
        k \in {j \in DOMAIN candidate_files : j[1] = RunOf /\ ~IsNone(candidate_files[j])}}

C14_StopsOnlyOnOkAndDone ==
    (CallIs("advance") /\ reviewer_calls >= 1) =>
        /\ (pc = "creator" => ~OkAndDone(Last(iterations)))
        /\ (Returned =>
              LET its == Val(result.state).iterations
              IN Last(its).iteration < Val(call).max_iterations => OkAndDone(Last(its)))

C14_Witness ==
    /\ CallIs("advance") /\ Val(call).origin = "none"
    /\ pc = "creator" /\ iteration = 2
    /\ Last(iterations).review.verdict = "needs_human"
    /\ Last(iterations).creator_done

\* C15: when the creator returns a candidate of another asset at iteration i,
\* advance raises: the reviewer is not invoked for iteration i, no state and
\* no writes are returned, and no candidate of another asset is ever handed
\* to the reviewer or recorded in an iteration.
C15_ForeignCandidateAborts ==
    CallIs("advance") =>
        /\ (pc = "reviewer" => Val(creator_out).candidate.asset_id = RunOf)
        /\ \A i \in 1..Len(iterations) : iterations[i].candidate.asset_id = RunOf
        /\ (Returned =>
              \A i \in 1..Len(Val(result.state).iterations) :
                  Val(result.state).iterations[i].candidate.asset_id = RunOf)
        /\ ((pc = "idle" /\ result.error = "candidate.asset_id") =>
              /\ result.status = "raised"
              /\ result.state = None
              /\ result.writes = <<>>
              /\ reviewer_calls = creator_calls - 1)

C15_Witness ==
    /\ CallIs("advance")
    /\ pc = "idle" /\ result.error = "candidate.asset_id"
    /\ creator_calls = 2
    /\ reviewer_calls = 1

\* C16: when the creator or the reviewer raises during an orchestrator run,
\* the run raises and the store is as it was before the run: no protocol
\* document, candidate or review file, selected text or aggregate entry is
\* written; every iteration a run records went through both agents.
C16_AgentErrorCommitsNothing ==
    /\ (RunEnded /\ result.error = "agent") =>
          /\ result.status = "raised"
          /\ result.state = None
          /\ protocol_files = before.protocol_files
          /\ candidate_files = before.candidate_files
          /\ review_files = before.review_files
          /\ selected = before.selected
          /\ state_json = before.state_json
    /\ RunCompleted =>
          /\ Len(Val(result.state).iterations) = creator_calls
          /\ Len(Val(result.state).iterations) = reviewer_calls

C16_Witness ==
    /\ RunEnded /\ result.error = "agent"
    /\ creator_calls = 2
    /\ reviewer_calls = 2
    /\ protocol_files = before.protocol_files

\* C17: advance called with max_iterations < 1, or with an existing state
\* whose asset_id or max_iterations differs from the arguments, raises
\* without invoking the creator or the reviewer and returns no state and no
\* writes.
C17_CallerErrorsFailFast ==
    (/\ CallIs("advance")
     /\ \/ Val(call).max_iterations < 1
        \/ /\ ~IsNone(Val(call).existing)
           /\ \/ Val(Val(call).existing).asset_id # Val(call).asset_id
              \/ Val(Val(call).existing).max_iterations # Val(call).max_iterations) =>
        /\ pc = "idle"
        /\ result.status = "raised"
        /\ result.error \in {"max_iterations", "existing.asset_id", "existing.max_iterations"}
        /\ result.state = None
        /\ result.writes = <<>>
        /\ creator_calls = 0
        /\ reviewer_calls = 0

C17_Witness ==
    /\ CallIs("advance")
    /\ ~IsNone(Val(call).existing)
    /\ Val(call).max_iterations >= 1
    /\ Val(Val(call).existing).asset_id = Val(call).asset_id
    /\ Val(Val(call).existing).max_iterations # Val(call).max_iterations
    /\ IsNone(Val(Val(call).existing).decision)
    /\ pc = "idle" /\ result.error = "existing.max_iterations"

\* C18: when the review worker threads of two different assets run
\* concurrently, once both have finished the aggregate holds the entry each
\* of them computed.
C18_NoLostEntry ==
    (\A a \in AssetIds : jobs[a].pc = "done") =>
        \A a \in AssetIds : AssetEntry(state_json, a) = Some(JobAsset(a))

\* the decision of the existing state of the current call
ExistingDecision == Val(Val(Val(call).existing).decision)

\* the decision the loop computes for the last iteration of a returned state
ComputedDecision ==
    LET last == Last(Val(result.state).iterations)
    IN IF OkAndDone(last)
       THEN [outcome |-> "converged", final_iteration |-> last.iteration,
             reason |-> "reviewer_ok_and_creator_done"]
       ELSE [outcome |-> "needs_human", final_iteration |-> last.iteration,
             reason |-> "iteration_limit"]

\* C19: advance on an existing state with a decision returns a decision in
\* which every field locked in the existing decision keeps the existing
\* value, every unlocked field has the newly computed value when the loop
\* ran, and the locked set contains the existing locked set (it is the union
\* with the computed decision's locked set).
C19_LockingMonotonic ==
    (/\ CallIs("advance") /\ Returned
     /\ ~IsNone(Val(call).existing)
     /\ ~IsNone(Val(Val(call).existing).decision)) =>
        LET e == ExistingDecision
            d == Val(Val(result.state).decision)
        IN /\ ~IsNone(Val(result.state).decision)
           /\ e.locked_fields \subseteq d.locked_fields
           /\ ("outcome" \in e.locked_fields => d.outcome = e.outcome)
           /\ ("final_iteration" \in e.locked_fields =>
                  d.final_iteration = e.final_iteration)
           /\ ("reason" \in e.locked_fields => d.reason = e.reason)
           /\ (reviewer_calls >= 1 =>
                  /\ d.locked_fields = e.locked_fields \cup DecisionFields
                  /\ ("outcome" \notin e.locked_fields =>
                         d.outcome = ComputedDecision.outcome)
                  /\ ("final_iteration" \notin e.locked_fields =>
                         d.final_iteration = ComputedDecision.final_iteration)
                  /\ ("reason" \notin e.locked_fields =>
                         d.reason = ComputedDecision.reason))
           /\ (reviewer_calls = 0 => d = e)

C19_Witness ==
    /\ CallIs("advance") /\ Returned
    /\ ~IsNone(Val(call).existing)
    /\ ~IsNone(Val(Val(call).existing).decision)
    /\ ExistingDecision.locked_fields = {"final_iteration", "reason"}
    /\ reviewer_calls >= 1
    /\ Val(Val(result.state).decision).outcome # ExistingDecision.outcome
    /\ Val(Val(result.state).decision).final_iteration = ExistingDecision.final_iteration
    /\ Last(Val(result.state).iterations).iteration # ExistingDecision.final_iteration

\* C20: every iteration advance records has review.iteration equal to its
\* own number; a review returned with another iteration number is recorded
\* with only that field replaced (verdict and issues as returned), and the
\* call does not fail because of it.
C20_ReviewIterationNormalized ==
    CallIs("advance") =>
        /\ \A i \in 1..Len(iterations) : iterations[i].review.iteration = iterations[i].iteration
        /\ (Returned =>
              \A i \in 1..Len(Val(result.state).iterations) :
                  Val(result.state).iterations[i].review.iteration
                      = Val(result.state).iterations[i].iteration)
        /\ ((reviewer_calls >= 1 /\ result.error # "agent"
                /\ result.error # "candidate.asset_id") =>
              LET recorded == IF pc = "idle" THEN Last(Val(result.state).iterations)
                              ELSE Last(iterations)
                  raw == Val(last_review_call).inner
              IN /\ result.status # "raised"
                 /\ recorded.review.verdict = raw.verdict
                 /\ recorded.review.issues = raw.issues
                 /\ recorded.review = [raw EXCEPT !.iteration = recorded.iteration])

C20_Witness ==
    /\ CallIs("advance") /\ Returned
    /\ reviewer_calls = 2
    /\ Val(last_review_call).inner.iteration = 3
    /\ Val(last_review_call).inner.verdict = "changes_requested"
    /\ Last(Val(result.state).iterations).review.iteration = 2
    /\ Last(Val(result.state).iterations).review.issues # <<>>

\* the existing state of the current call
Existing == Val(Val(call).existing)

\* the call resumes: valid arguments, and an existing state that is not frozen
Resumes ==
    /\ CallIs("advance")
    /\ ~IsNone(Val(call).existing)
    /\ Val(call).max_iterations >= 1
    /\ Existing.asset_id = Val(call).asset_id
    /\ Existing.max_iterations = Val(call).max_iterations
    /\ \/ IsNone(Existing.decision)
       \/ Val(Existing.decision).outcome = "in_progress"
       \/ "outcome" \notin Val(Existing.decision).locked_fields

\* C21: advance resuming a non-frozen existing state with n < max_iterations
\* iterations keeps the n existing iterations unchanged in front, numbers the
\* first new iteration n + 1, and hands iteration n's candidate and review to
\* the first creator call as previous_candidate and previous_review.
C21_ResumeContinues ==
    (Resumes /\ Len(Existing.iterations) < Val(call).max_iterations) =>
        LET n == Len(Existing.iterations)
        IN /\ (pc # "idle" =>
                  /\ Len(iterations) >= n
                  /\ SubSeq(iterations, 1, n) = Existing.iterations
                  /\ iteration = Len(iterations) + 1)
           /\ ((pc = "reviewer" /\ creator_calls = 1) =>
                  last_creator_in =
                      Some([asset_id |-> Val(call).asset_id,
                            iteration |-> n + 1,
                            previous_candidate |->
                                IF n = 0 THEN None
                                ELSE Some(Existing.iterations[n].candidate),
                            previous_review |->
                                IF n = 0 THEN None
                                ELSE Some(Existing.iterations[n].review)]))
           /\ (Returned =>
                  /\ Len(Val(result.state).iterations) > n
                  /\ SubSeq(Val(result.state).iterations, 1, n) = Existing.iterations
                  /\ Val(result.state).iterations[n + 1].iteration = n + 1)

C21_Witness ==
    /\ Resumes /\ Returned
    /\ Len(Existing.iterations) = 1
    /\ Len(Val(result.state).iterations) = 2
    /\ Val(last_creator_in).previous_candidate = Some(Existing.iterations[1].candidate)
    /\ Val(last_creator_in).previous_review = Some(Existing.iterations[1].review)

\* number of iterations the existing state of the current call holds
ExistingCount ==
    IF IsNone(Val(call).existing) THEN 0 ELSE Len(Existing.iterations)

\* C22: within one advance call the agents are called in the strict order
\* Creator(i), Reviewer(i), Creator(i+1), ...: each agent exactly once per
\* newly recorded iteration, Reviewer(i) on the candidate Creator(i)
\* returned, and Creator(i) for a later iteration on the candidate and the
\* normalized review recorded for iteration i - 1.
C22_StrictAgentSequence ==
    CallIs("advance") =>
        /\ (pc = "creator" =>
              /\ creator_calls = reviewer_calls
              /\ Len(iterations) = ExistingCount + reviewer_calls)
        /\ (pc = "reviewer" =>
              /\ creator_calls = reviewer_calls + 1
              /\ Len(iterations) = ExistingCount + reviewer_calls
              /\ Val(last_creator_in).iteration = iteration
              /\ (creator_calls >= 2 =>
                    /\ Val(last_creator_in).previous_candidate
                           = Some(Last(iterations).candidate)
                    /\ Val(last_creator_in).previous_review
                           = Some(Last(iterations).review)
                    /\ Last(iterations).iteration = iteration - 1
                    /\ Last(iterations).review.iteration = iteration - 1))
        /\ ((pc = "creator" /\ reviewer_calls >= 1) =>
              Val(last_review_call).candidate = Last(iterations).candidate)
        /\ (Returned =>
              /\ creator_calls = reviewer_calls
              /\ Len(Val(result.state).iterations) = ExistingCount + reviewer_calls
              /\ (reviewer_calls >= 1 =>
                    Val(last_review_call).candidate
                        = Last(Val(result.state).iterations).candidate))

C22_Witness ==
    /\ CallIs("advance") /\ Val(call).origin = "none"
    /\ pc = "reviewer" /\ creator_calls = 2 /\ reviewer_calls = 1
    /\ Val(last_review_call).inner.iteration = 2
    /\ Val(last_creator_in).previous_review = Some(Last(iterations).review)

\* the JSON document of a recorded iteration
ExpectedIterationDoc(it) ==
    [version |-> 1, iteration |-> it.iteration,
     creator |-> [done |-> it.creator_done, candidate |-> it.candidate],
     reviewer |-> it.review]

\* the JSON document of a returned state
ExpectedStateDoc(st) ==
    [version |-> 1, asset_id |-> st.asset_id, max_iterations |-> st.max_iterations,
     decision |->
        IF IsNone(st.decision) THEN None
        ELSE Some([outcome |-> Val(st.decision).outcome,
                   final_iteration |-> Val(st.decision).final_iteration,
                   reason |-> Val(st.decision).reason,
                   locked_fields |->
                       SelectSeq(<<"final_iteration", "outcome", "reason">>,
                                 LAMBDA f : f \in Val(st.decision).locked_fields)]),
     iterations |-> [i \in 1..Len(st.iterations) |-> ExpectedIterationDoc(st.iterations[i])]]

\* C23: an advance call that is not the frozen no-op returns one iteration
\* write per newly recorded iteration, in iteration order and at the path of
\* its asset id and iteration number, then exactly one write of the state
\* document, last, holding the serialization of the returned state;
\* iterations of the existing state get no write.
C23_WritesShape ==
    (CallIs("advance") /\ Returned /\ (IsNone(Val(call).existing) \/ Resumes)) =>
        LET st == Val(result.state)
            n == ExistingCount
            k == Len(st.iterations) - n
            ws == result.writes
        IN /\ k >= 0
           /\ Len(ws) = k + 1
           /\ \A j \in 1..k :
                 /\ ws[j].path = <<"protocol", st.asset_id, "iteration", n + j>>
                 /\ st.iterations[n + j].iteration = n + j
                 /\ ws[j].json_data = ExpectedIterationDoc(st.iterations[n + j])
           /\ ws[k + 1].path = <<"protocol", st.asset_id, "state">>
           /\ ws[k + 1].json_data = ExpectedStateDoc(st)

C23_Witness ==
    /\ Resumes /\ Returned
    /\ Len(Existing.iterations) = 1
    /\ Len(Val(result.state).iterations) = 2
    /\ Len(result.writes) = 2
    /\ result.writes[1].path = <<"protocol", "slug", "iteration", 2>>
    /\ result.writes[2].path = <<"protocol", "slug", "state">>

\* C24: a seeding wrapper rewrites at most once: the first call whose
\* previous_candidate is null gets the seed as previous_candidate with
\* asset_id, iteration and previous_review kept; every other call is passed
\* through unchanged, also a later call whose previous_candidate is null, and
\* calls with a non-null previous_candidate do not use the wrapper up.
C24_SeedRewriteOnce ==
    ~IsNone(wrapper_call) =>
        LET w == Val(wrapper_call)
        IN IF w.first_null /\ IsNone(w.inp.previous_candidate)
           THEN /\ w.passed.previous_candidate = Some(w.seed)
                /\ w.passed.asset_id = w.inp.asset_id
                /\ w.passed.iteration = w.inp.iteration
                /\ w.passed.previous_review = w.inp.previous_review
                /\ used
           ELSE /\ w.passed = w.inp
                /\ (w.first_null => ~used)

C24_Witness ==
    /\ ~IsNone(wrapper_call)
    /\ ~Val(wrapper_call).first_null
    /\ IsNone(Val(wrapper_call).inp.previous_candidate)
    /\ Val(wrapper_call).passed = Val(wrapper_call).inp

\* verdict ok carries no issue of severity error
OkHasNoError(review) ==
    review.verdict = "ok" =>
        \A i \in 1..Len(review.issues) : review.issues[i].severity # "error"

\* C25: every review recorded in a loop state or persisted by the
\* orchestrator (review files, protocol documents, aggregate entries) has no
\* error issue when its verdict is ok; the locked-selection wrapper, which
\* appends an error issue, never returns verdict ok.
C25_OkWithoutErrors ==
    /\ \A i \in 1..Len(iterations) : OkHasNoError(iterations[i].review)
    /\ (~IsNone(result.state) =>
          \A i \in 1..Len(Val(result.state).iterations) :
              OkHasNoError(Val(result.state).iterations[i].review))
    /\ \A k \in DOMAIN review_files :
          ~IsNone(review_files[k]) => OkHasNoError(Val(review_files[k]))
    /\ \A a \in AssetIds, n \in 1..MaxIter :
          ~IsNone(protocol_files[<<"protocol", a, "iteration", n>>]) =>
              OkHasNoError(Val(protocol_files[<<"protocol", a, "iteration", n>>]).reviewer)
    /\ \A i \in 1..Len(state_json) :
          \A j \in 1..Len(state_json[i].reviews) : OkHasNoError(state_json[i].reviews[j])
    /\ (~IsNone(last_review_call) =>
          /\ OkHasNoError(Val(last_review_call).returned)
          /\ (HasLockedIssue(Val(last_review_call).returned) =>
                 Val(last_review_call).returned.verdict # "ok"))

C25_Witness ==
    /\ RunCompleted
    /\ ~IsNone(last_review_call)
    /\ Val(last_review_call).inner.verdict = "ok"
    /\ HasLockedIssue(Val(last_review_call).returned)
    /\ review_files[<<RunOf, 1>>] = Some(Val(last_review_call).returned)
    /\ Val(review_files[<<RunOf, 1>>]).verdict = "changes_requested"

\* C26: in every state advance returns when started from no state, and in
\* every state returned by later calls fed with such a state, the recorded
\* iterations are numbered 1, 2, ..., n in order, with n <= max_iterations.
C26_IterationNumbering ==
    (CallIs("advance") /\ Val(call).origin \in {"none", "output"}) =>
        /\ \A i \in 1..Len(iterations) : iterations[i].iteration = i
        /\ Len(iterations) <= Val(call).max_iterations
        /\ (Returned =>
              /\ \A i \in 1..Len(Val(result.state).iterations) :
                    Val(result.state).iterations[i].iteration = i
              /\ Len(Val(result.state).iterations) <= Val(call).max_iterations)

C26_Witness ==
    /\ CallIs("advance") /\ Val(call).origin = "output" /\ Returned
    /\ Len(Val(result.state).iterations) = 2
    /\ Val(result.state).iterations[2].iteration = 2

\* C27: the per-asset protocol state document is at every moment a complete
\* document (fully its old or fully its new version): a reader never finds
\* it empty or partially written, also when the commit is interrupted.
C27_StateDocumentAtomic ==
    \A a \in AssetIds :
        LET file == writer.disk[<<"protocol", a, "state">>]
        IN ~IsNone(file) => Val(file).bytes = "all"

\* what holds of a call started from no state with max_iterations >= 1
BoundedAndTerminal ==
    (CallIs("advance") /\ Val(call).origin = "none" /\ Val(call).max_iterations >= 1) =>
        /\ creator_calls <= Val(call).max_iterations
        /\ reviewer_calls <= Val(call).max_iterations
        /\ (Returned =>
              /\ ~IsNone(Val(result.state).decision)
              /\ Val(Val(result.state).decision).outcome \in {"converged", "needs_human"}
              /\ Val(Val(result.state).decision).locked_fields
                     = {"outcome", "final_iteration", "reason"}
              /\ Val(Val(result.state).decision).final_iteration
                     = Len(Val(result.state).iterations))

\* C28: started from no state with max_iterations >= 1 and agents that
\* always return, advance terminates, after at most max_iterations calls of
\* each agent, and the returned decision is converged or needs_human with
\* outcome, final_iteration and reason locked and final_iteration equal to
\* the number of recorded iterations.
C28_TerminatesWithLockedDecision ==
    /\ []BoundedAndTerminal
    /\ (pc # "idle") ~> (pc = "idle")

C28_Witness ==
    /\ CallIs("advance") /\ Val(call).origin = "none" /\ Returned
    /\ Val(call).max_iterations = 2
    /\ creator_calls = 1
    /\ Len(Val(result.state).iterations) = 1
    /\ Val(Val(result.state).decision).outcome = "converged"
    /\ Val(Val(result.state).decision).final_iteration = 1

\* C29: advance on a non-frozen existing state that already holds
\* max_iterations or more iterations invokes neither agent, adds no
\* iteration and returns the existing state with its decision unchanged (a
\* null decision stays null); its only write is the state document.
C29_FullStateNoOp ==
    (Resumes /\ Len(Existing.iterations) >= Val(call).max_iterations) =>
        /\ pc = "idle"
        /\ result.status = "returned"
        /\ creator_calls = 0
        /\ reviewer_calls = 0
        /\ Val(result.state).iterations = Existing.iterations
        /\ Val(result.state).decision = Existing.decision
        /\ Len(result.writes) = 1
        /\ result.writes[1].path = <<"protocol", Val(call).asset_id, "state">>
        /\ result.writes[1].json_data = ExpectedStateDoc(Existing)

C29_Witness ==
    /\ Resumes /\ Returned
    /\ Len(Existing.iterations) = 2
    /\ Val(call).max_iterations = 1
    /\ IsNone(Existing.decision)
    /\ IsNone(Val(result.state).decision)
    /\ Len(result.writes) = 1

\* C30: an orchestrator run that raises during its commit step (the Asset
\* entry is rejected) has modified neither the asset's selected-text files
\* nor its per-asset protocol state document.
C30_CommitAllOrNothing ==
    (RunEnded /\ result.status = "raised" /\ result.error = "asset_validation") =>
        /\ \A f \in TextFormat : selected[<<RunOf, f>>] = before.selected[<<RunOf, f>>]
        /\ StateDoc(protocol_files, RunOf) = StateDoc(before.protocol_files, RunOf)

====
